---- MODULE Spec2Model ----
(***************************************************************************)
(* Model of scripts/validate_yaml.py: AgentYAMLValidator.                  *)
(*                                                                         *)
(* A Python string is a sequence of one-character strings, so that         *)
(* startswith, split, the substring test of `in` and the path f-strings    *)
(* are computed character by character.  A parsed YAML value is a record   *)
(* [t, v]: t is the Python type of the value and v its content; a dict is  *)
(* the sequence of its <<key, value>> pairs in insertion order.            *)
(***************************************************************************)
EXTENDS Integers, Sequences, FiniteSets, TLC

VARIABLES
    fileState,    \* the file at yaml_file: "missing", "badsyntax" or "ok"
    content,      \* what yaml.safe_load returns for the file when it parses
    agent_data,   \* self.agent_data
    errors,       \* self.errors
    warnings,     \* self.warnings
    expressions,  \* the list built by the last expression scan
    hints,        \* the "Requires env var" lines printed by the last scan
    pc,           \* position inside validate(), "idle" outside of it
    ret,          \* value returned by the last completed validate()
    runs,         \* number of validate() calls started on this object
    reports       \* the report (errors, warnings, result) at each return

vars == <<fileState, content, agent_data, errors, warnings, expressions,
          hints, pc, ret, runs, reports>>

(***************************************************************************)
(* Bounds of the explored inputs.                                          *)
(***************************************************************************)
MaxRuns == 2
MaxTools == 2
MaxParts == 3
MaxDepth == 2

(***************************************************************************)
(* String literals of the source.                                          *)
(***************************************************************************)
sKind == <<"k", "i", "n", "d">>
sName == <<"n", "a", "m", "e">>
sModel == <<"m", "o", "d", "e", "l">>
sTools == <<"t", "o", "o", "l", "s">>
sId == <<"i", "d">>
sConnection == <<"c", "o", "n", "n", "e", "c", "t", "i", "o", "n">>
sEndpoint == <<"e", "n", "d", "p", "o", "i", "n", "t">>
sApiKey == <<"a", "p", "i", "K", "e", "y">>
sKey == <<"k", "e", "y">>
sDescription == <<"d", "e", "s", "c", "r", "i", "p", "t", "i", "o", "n">>
sUrl == <<"u", "r", "l">>
sSpecification == <<"s", "p", "e", "c", "i", "f", "i", "c", "a", "t", "i", "o", "n">>
sPrompt == <<"P", "r", "o", "m", "p", "t">>
sAgent == <<"A", "g", "e", "n", "t">>
sRemote == <<"r", "e", "m", "o", "t", "e">>
sReference == <<"r", "e", "f", "e", "r", "e", "n", "c", "e">>
sAnonymous == <<"a", "n", "o", "n", "y", "m", "o", "u", "s">>
sFunction == <<"f", "u", "n", "c", "t", "i", "o", "n">>
sWebSearch == <<"w", "e", "b", "_", "s", "e", "a", "r", "c", "h">>
sFileSearch == <<"f", "i", "l", "e", "_", "s", "e", "a", "r", "c", "h">>
sCodeInterpreter == <<"c", "o", "d", "e", "_", "i", "n", "t", "e", "r", "p", "r", "e", "t", "e", "r">>
sMcp == <<"m", "c", "p">>
sOpenapi == <<"o", "p", "e", "n", "a", "p", "i">>
sCustom == <<"c", "u", "s", "t", "o", "m">>
sEnvPrefix == <<"=", "E", "n", "v", ".">>

(***************************************************************************)
(* Parsed YAML values.                                                     *)
(***************************************************************************)
PyNone == [t |-> "null", v |-> <<>>]
PyBool(b) == [t |-> "bool", v |-> b]
PyInt(n) == [t |-> "int", v |-> n]
PyStr(s) == [t |-> "str", v |-> s]
PyList(items) == [t |-> "list", v |-> items]
PyDict(pairs) == [t |-> "map", v |-> pairs]

(***************************************************************************)
(* Python primitives the validator relies on.                              *)
(***************************************************************************)
\* bool(x): None, False, 0, "", [] and {} are falsy.
Truthy(x) ==
    CASE x.t = "null" -> FALSE
      [] x.t = "bool" -> x.v
      [] x.t = "int" -> x.v # 0
      [] OTHER -> Len(x.v) > 0

\* key in d, for a dict d.
HasKey(d, k) == \E i \in 1..Len(d.v) : d.v[i][1] = k

\* d.get(k): the value of the key, None when absent.
Get(d, k) ==
    IF HasKey(d, k)
    THEN d.v[CHOOSE i \in 1..Len(d.v) : d.v[i][1] = k][2]
    ELSE PyNone

\* s.startswith(p)
StartsWith(s, p) == Len(s) >= Len(p) /\ SubSeq(s, 1, Len(p)) = p

\* Positions at which sep occurs in s.
Occurrences(s, sep) ==
    {i \in 1..(Len(s) - Len(sep) + 1) : SubSeq(s, i, i + Len(sep) - 1) = sep}

\* `x in c` is defined for dict (keys), list (elements) and str (substring);
\* on None, bool and int it raises TypeError.
CanContain(c) == c.t \in {"map", "list", "str"}

Contains(c, s) ==
    CASE c.t = "map" -> HasKey(c, s)
      [] c.t = "list" -> \E i \in 1..Len(c.v) : c.v[i] = PyStr(s)
      [] c.t = "str" -> Len(s) = 0 \/ Occurrences(c.v, s) # {}
      [] OTHER -> FALSE

\* s.split(sep): the pieces between the non-overlapping occurrences of sep,
\* found left to right.
RECURSIVE Split(_, _)
Split(s, sep) ==
    LET occ == Occurrences(s, sep) IN
    IF occ = {} THEN <<s>>
    ELSE LET i == CHOOSE a \in occ : \A b \in occ : a <= b IN
         <<SubSeq(s, 1, i - 1)>> \o Split(SubSeq(s, i + Len(sep), Len(s)), sep)

\* str(i) for a non-negative integer, as the f-string renders it.
Digit == <<"0", "1", "2", "3", "4", "5", "6", "7", "8", "9">>
RECURSIVE DecStr(_)
DecStr(n) ==
    IF n < 10 THEN <<Digit[n + 1]>>
    ELSE DecStr(n \div 10) \o <<Digit[(n % 10) + 1]>>

(***************************************************************************)
(* Class constants.                                                        *)
(***************************************************************************)
VALID_KINDS == {PyStr(sPrompt), PyStr(sAgent)}
VALID_CONNECTION_KINDS ==
    {PyStr(sRemote), PyStr(sKey), PyStr(sReference), PyStr(sAnonymous)}
VALID_TOOL_KINDS ==
    {PyStr(sFunction), PyStr(sWebSearch), PyStr(sFileSearch), PyStr(sCodeInterpreter),
     PyStr(sMcp), PyStr(sOpenapi), PyStr(sCustom)}

(***************************************************************************)
(* Report entries.  A message is kept as the rule that produced it, its    *)
(* fixed text, the tool position it carries (0 when none) and the value    *)
(* or field name it interpolates (PyNone when none).                         *)
(***************************************************************************)
Msg(rule, text, idx, val) == [rule |-> rule, msg |-> text, idx |-> idx, val |-> val]

FileNotFound == Msg("load", "File not found", 0, PyNone)
InvalidYaml == Msg("load", "Invalid YAML syntax", 0, PyNone)
MissingField(f) == Msg("required", "Missing required field", 0, PyStr(f))
InvalidKind(k) == Msg("kind", "Invalid 'kind'", 0, k)
NoModel == Msg("model", "No 'model' section defined", 0, PyNone)
MissingModelId == Msg("model", "Missing required field: 'model.id'", 0, PyNone)
MissingConnKind == Msg("connection", "Missing required field: 'model.connection.kind'", 0, PyNone)
InvalidConnKind(k) == Msg("connection", "Invalid connection kind", 0, k)
ConnRequires(k, text) == Msg("connection-fields", text, 0, PyStr(k))
ToolMissingKind(n) == Msg("tools", "Missing 'kind' field", n, PyNone)
ToolInvalidKind(n, k) == Msg("tools", "Invalid kind", n, k)
ToolRequires(n, k, f) == Msg("tools", "tool requires", n, PyStr(k \o <<":">> \o f))

(***************************************************************************)
(* The rules.  Each yields what the method appends, and whether it ends    *)
(* by an uncaught exception (what it appended before raising is kept).     *)
(***************************************************************************)
Outcome(errs, warns, raised) == [errs |-> errs, warns |-> warns, raised |-> raised]

\* _validate_required_fields: `field not in self.agent_data` for "kind", "name".
RequiredOutcome(data) ==
    IF ~CanContain(data) THEN Outcome(<<>>, <<>>, TRUE)
    ELSE Outcome(
        (IF ~Contains(data, sKind) THEN <<MissingField(sKind)>> ELSE <<>>)
        \o (IF ~Contains(data, sName) THEN <<MissingField(sName)>> ELSE <<>>),
        <<>>, FALSE)

\* The test of _validate_kind on the value of data.get("kind").
KindRejected(kind) == Truthy(kind) /\ kind \notin VALID_KINDS

\* _validate_kind: self.agent_data.get raises AttributeError unless a dict.
KindOutcome(data) ==
    IF data.t # "map" THEN Outcome(<<>>, <<>>, TRUE)
    ELSE LET kind == Get(data, sKind) IN
         Outcome(IF KindRejected(kind) THEN <<InvalidKind(kind)>> ELSE <<>>,
                 <<>>, FALSE)

\* The connection-kind-specific required fields (the if/elif chain).
ConnectionFieldErrors(connection, conn_kind) ==
    IF conn_kind = PyStr(sRemote) /\ ~HasKey(connection, sEndpoint)
    THEN <<ConnRequires(sRemote, "requires 'endpoint'")>>
    ELSE IF conn_kind = PyStr(sKey)
    THEN (IF ~HasKey(connection, sApiKey) /\ ~HasKey(connection, sKey)
          THEN <<ConnRequires(sKey, "requires 'apiKey' or 'key'")>>
          ELSE <<>>)
    ELSE IF conn_kind = PyStr(sReference) /\ ~HasKey(connection, sName)
    THEN <<ConnRequires(sReference, "requires 'name'")>>
    ELSE IF conn_kind = PyStr(sAnonymous) /\ ~HasKey(connection, sEndpoint)
    THEN <<ConnRequires(sAnonymous, "requires 'endpoint'")>>
    ELSE <<>>

\* The body of `if connection:` for a dict connection.
ConnectionErrors(connection) ==
    LET conn_kind == Get(connection, sKind) IN
    (IF ~Truthy(conn_kind) THEN <<MissingConnKind>>
     ELSE IF conn_kind \notin VALID_CONNECTION_KINDS
     THEN <<InvalidConnKind(conn_kind)>>
     ELSE <<>>)
    \o ConnectionFieldErrors(connection, conn_kind)

\* `if not model:` of _validate_model.
ModelSkipped(model) == ~Truthy(model)

\* `if connection:` of _validate_model.
ConnectionChecked(connection) == Truthy(connection)

\* _validate_model.
ModelOutcome(data) ==
    LET model == Get(data, sModel) IN
    IF ModelSkipped(model) THEN Outcome(<<>>, <<NoModel>>, FALSE)
    ELSE IF ~CanContain(model) THEN Outcome(<<>>, <<>>, TRUE)
    ELSE LET idErrs == IF ~Contains(model, sId) THEN <<MissingModelId>> ELSE <<>> IN
         IF model.t # "map" THEN Outcome(idErrs, <<>>, TRUE)
         ELSE LET connection == Get(model, sConnection) IN
              IF ~ConnectionChecked(connection) THEN Outcome(idErrs, <<>>, FALSE)
              ELSE IF connection.t # "map" THEN Outcome(idErrs, <<>>, TRUE)
              ELSE Outcome(idErrs \o ConnectionErrors(connection), <<>>, FALSE)

\* One required field of a tool kind: `if "<f>" not in tool`.
ToolField(n, tool, k, f) ==
    IF ~HasKey(tool, f) THEN <<ToolRequires(n, k, f)>> ELSE <<>>

\* ToolFieldErrors with the second check of a kind chained by elif to the
\* first, so that a tool lacking both fields gets one error only.
ToolFieldErrorsFirstOnly(n, tool, tool_kind) ==
    LET Both(k, f, g) ==
            IF ~HasKey(tool, f) THEN <<ToolRequires(n, k, f)>>
            ELSE IF ~HasKey(tool, g) THEN <<ToolRequires(n, k, g)>>
            ELSE <<>>
    IN
    IF tool_kind = PyStr(sFunction) THEN Both(sFunction, sName, sDescription)
    ELSE IF tool_kind = PyStr(sMcp) THEN Both(sMcp, sName, sUrl)
    ELSE IF tool_kind = PyStr(sOpenapi) THEN Both(sOpenapi, sName, sSpecification)
    ELSE IF tool_kind = PyStr(sCustom) THEN ToolField(n, tool, sCustom, sName)
    ELSE <<>>

\* The tool-specific validations (the if/elif chain on tool_kind).
ToolFieldErrors(n, tool, tool_kind) ==
    IF tool_kind = PyStr(sFunction)
    THEN ToolField(n, tool, sFunction, sName) \o ToolField(n, tool, sFunction, sDescription)
    ELSE IF tool_kind = PyStr(sMcp)
    THEN ToolField(n, tool, sMcp, sName) \o ToolField(n, tool, sMcp, sUrl)
    ELSE IF tool_kind = PyStr(sOpenapi)
    THEN ToolField(n, tool, sOpenapi, sName) \o ToolField(n, tool, sOpenapi, sSpecification)
    ELSE IF tool_kind = PyStr(sCustom)
    THEN ToolField(n, tool, sCustom, sName)
    ELSE <<>>

\* ToolErrors without the `continue` after the missing-kind error.
ToolErrorsNoContinue(i, tool) ==
    LET tool_kind == Get(tool, sKind) IN
    (IF ~Truthy(tool_kind) THEN <<ToolMissingKind(i + 1)>> ELSE <<>>)
    \o (IF tool_kind \notin VALID_TOOL_KINDS
        THEN <<ToolInvalidKind(i + 1, tool_kind)>>
        ELSE <<>>)
    \o ToolFieldErrors(i + 1, tool, tool_kind)

\* One iteration of the loop of _validate_tools on a dict entry; i is the
\* index enumerate() gives, the messages carry i + 1.
ToolErrors(i, tool) ==
    LET tool_kind == Get(tool, sKind) IN
    IF ~Truthy(tool_kind) THEN <<ToolMissingKind(i + 1)>>
    ELSE (IF tool_kind \notin VALID_TOOL_KINDS
          THEN <<ToolInvalidKind(i + 1, tool_kind)>>
          ELSE <<>>)
         \o ToolFieldErrors(i + 1, tool, tool_kind)

\* What enumerate(tools) iterates: the items of a list, the keys of a dict,
\* the characters of a str.
Items(c) ==
    CASE c.t = "list" -> c.v
      [] c.t = "map" -> [j \in 1..Len(c.v) |-> PyStr(c.v[j][1])]
      [] c.t = "str" -> [j \in 1..Len(c.v) |-> PyStr(<<c.v[j]>>)]
      [] OTHER -> <<>>

\* The loop of _validate_tools from index i on: tool.get raises
\* AttributeError on an entry that is not a dict.
RECURSIVE ToolsLoop(_, _)
ToolsLoop(items, i) ==
    IF i >= Len(items) THEN Outcome(<<>>, <<>>, FALSE)
    ELSE IF items[i + 1].t # "map" THEN Outcome(<<>>, <<>>, TRUE)
    ELSE LET rest == ToolsLoop(items, i + 1) IN
         Outcome(ToolErrors(i, items[i + 1]) \o rest.errs, <<>>, rest.raised)

\* _validate_tools: self.agent_data.get("tools", []).
ToolsOutcome(data) ==
    LET tools == IF HasKey(data, sTools) THEN Get(data, sTools) ELSE PyList(<<>>) IN
    IF ~CanContain(tools) THEN Outcome(<<>>, <<>>, TRUE)
    ELSE ToolsLoop(Items(tools), 0)

\* The path of a dict entry: f"{path}.{k}" if path else k.
KeyPath(path, k) == IF path # <<>> THEN path \o <<".">> \o k ELSE k

\* The path of a list item: f"{path}[{i}]".
IndexPath(path, i) == path \o <<"[">> \o DecStr(i) \o <<"]">>

\* find_expressions(obj, path), with its two loops.
RECURSIVE find_expressions(_, _)
RECURSIVE FindInDict(_, _, _)
RECURSIVE FindInList(_, _, _)
find_expressions(obj, path) ==
    CASE obj.t = "map" -> FindInDict(obj.v, 1, path)
      [] obj.t = "list" -> FindInList(obj.v, 0, path)
      [] obj.t = "str" /\ StartsWith(obj.v, <<"=">>) -> << <<path, obj.v>> >>
      [] OTHER -> <<>>

FindInDict(pairs, j, path) ==
    IF j > Len(pairs) THEN <<>>
    ELSE find_expressions(pairs[j][2], KeyPath(path, pairs[j][1]))
         \o FindInDict(pairs, j + 1, path)

FindInList(items, i, path) ==
    IF i >= Len(items) THEN <<>>
    ELSE find_expressions(items[i + 1], IndexPath(path, i))
         \o FindInList(items, i + 1, path)

\* expr.split("=Env.")[1].split(")")[0].split(",")[0]
EnvVarName(expr) ==
    Split(Split(Split(expr, sEnvPrefix)[2], <<")">>)[1], <<",">>)[1]

\* The "Requires env var" lines printed for the expressions found.
RECURSIVE EnvHints(_, _)
EnvHints(exprs, j) ==
    IF j > Len(exprs) THEN <<>>
    ELSE (IF StartsWith(exprs[j][2], sEnvPrefix)
          THEN <<[expr |-> exprs[j][2], var_name |-> EnvVarName(exprs[j][2])]>>
          ELSE <<>>)
         \o EnvHints(exprs, j + 1)

\* IsValid that also requires the warnings to be empty.
IsValidNoWarnings(errs, warns) == Len(errs) = 0 /\ Len(warns) = 0

\* `return len(self.errors) == 0`
IsValid(errs, warns) == Len(errs) = 0

(***************************************************************************)
(* The documents explored.                                                 *)
(***************************************************************************)
sA == <<"a">>
sB == <<"b">>
sBogus == <<"b", "o", "g", "u", "s">>
sExpr == <<"=", "A">>
aStr == PyStr(<<"x">>)

\* A key that is absent, or present with one of the values.
Opt(k, vals) == {<<>>} \cup {<< <<k, val>> >> : val \in vals}

\* A well-formed head of a document: kind and name.
GoodHead == << <<sKind, PyStr(sAgent)>>, <<sName, aStr>> >>

KindValues ==
    {PyStr(sPrompt), PyStr(sAgent), PyStr(sBogus), PyStr(<<>>), PyStr(sExpr),
     PyNone, PyBool(FALSE), PyBool(TRUE), PyInt(0), PyInt(7), PyList(<<>>)}

HeadDocs ==
    {PyDict(k \o n \o m) :
        k \in Opt(sKind, KindValues),
        n \in Opt(sName, {aStr}),
        m \in Opt(sModel, {PyDict(<< <<sId, aStr>> >>)})}

ConnectionFieldSets ==
    {e \o a \o k \o n :
        e \in Opt(sEndpoint, {aStr}), a \in Opt(sApiKey, {aStr}),
        k \in Opt(sKey, {aStr}), n \in Opt(sName, {aStr})}

ConnectionValues ==
    {PyDict(k \o f) :
        k \in Opt(sKind, {PyStr(<<>>), PyNone, PyStr(sBogus), PyStr(sRemote),
                          PyStr(sKey), PyStr(sReference), PyStr(sAnonymous)}),
        f \in ConnectionFieldSets}
    \cup {PyNone, aStr, PyList(<<>>), PyList(<<aStr>>)}

ModelValues ==
    {PyDict(i \o c) :
        i \in Opt(sId, {aStr}), c \in Opt(sConnection, ConnectionValues)}
    \cup {PyNone, aStr, PyStr(sId), PyInt(0), PyInt(5), PyBool(TRUE),
          PyList(<<>>), PyList(<<PyStr(sId)>>)}

ModelDocs ==
    {PyDict(GoodHead \o << <<sModel, m>> >>) : m \in ModelValues}

ToolFieldSets ==
    {n \o d \o u \o s :
        n \in Opt(sName, {aStr}), d \in Opt(sDescription, {aStr}),
        u \in Opt(sUrl, {aStr}), s \in Opt(sSpecification, {aStr})}

ToolSet ==
    {PyDict(k \o f) :
        k \in Opt(sKind, VALID_TOOL_KINDS
                          \cup {PyStr(<<>>), PyStr(sBogus), PyNone, PyInt(0)}),
        f \in ToolFieldSets}

SmallToolSet ==
    {PyDict(<<>>),
     PyDict(<< <<sName, aStr>> >>),
     PyDict(<< <<sKind, PyStr(sFunction)>> >>),
     PyDict(<< <<sKind, PyStr(sMcp)>>, <<sName, aStr>> >>),
     PyDict(<< <<sKind, PyStr(sWebSearch)>> >>),
     PyDict(<< <<sKind, PyStr(sBogus)>> >>)}

RECURSIVE SeqsUpTo(_, _)
SeqsUpTo(S, n) ==
    IF n = 0 THEN {<<>>}
    ELSE LET R == SeqsUpTo(S, n - 1) IN R \cup {<<x>> \o r : x \in S, r \in R}

ToolsValues ==
    {PyList(<<t>>) : t \in ToolSet}
    \cup {PyList(<<f, t>>) : f \in {PyDict(<<>>), PyDict(<< <<sKind, PyStr(sCustom)>> >>)},
                             t \in ToolSet}
    \cup {PyList(l) : l \in SeqsUpTo(SmallToolSet, MaxTools)}
    \cup {PyNone, PyInt(3), aStr, PyDict(<<>>), PyDict(<< <<sKind, aStr>> >>),
          PyList(<<aStr>>), PyList(<<PyDict(<<>>), PyNone>>)}

ToolsDocs ==
    {PyDict(GoodHead \o << <<sTools, t>> >>) : t \in ToolsValues}

\* Strings made of at most MaxParts pieces.
Pieces == {<<"A">>, <<")">>, <<",">>, <<"=">>, <<"E">>, sEnvPrefix}

RECURSIVE Strings(_)
Strings(n) ==
    IF n = 0 THEN {<<>>}
    ELSE LET R == Strings(n - 1) IN R \cup {p \o r : p \in Pieces, r \in R}

StringDocs ==
    {PyDict(GoodHead \o << <<sA, PyStr(str)>> >>) : str \in Strings(MaxParts)}

Leaves == {PyStr(sExpr), PyStr(<<"A">>), PyInt(1)}

Wrap(val) ==
    {PyList(<<val>>), PyList(<<PyStr(sExpr), val>>),
     PyDict(<< <<sA, val>> >>), PyDict(<< <<(<<>>), val>> >>),
     PyDict(<< <<sB, PyStr(sExpr)>>, <<sA, val>> >>),
     PyDict(<< <<sA, val>>, <<sB, PyStr(sExpr)>> >>)}

RECURSIVE Nest(_)
Nest(d) ==
    IF d = 0 THEN Leaves
    ELSE LET R == Nest(d - 1) IN R \cup UNION {Wrap(val) : val \in R}

LongList == PyList([j \in 1..11 |-> PyStr(sExpr)])

NestedDocs ==
    {PyDict(GoodHead \o << <<k, val>> >>) :
        k \in {sA, <<>>}, val \in Nest(MaxDepth) \cup {LongList}}

\* Roots that are not a mapping.
OtherRoots ==
    {PyNone, PyInt(3), PyBool(FALSE), PyStr(<<>>), aStr, PyStr(sKind \o sName),
     PyList(<<>>), PyList(<<PyStr(sKind), PyStr(sName)>>)}

Documents ==
    HeadDocs \cup ModelDocs \cup ToolsDocs \cup StringDocs \cup NestedDocs
    \cup OtherRoots

(***************************************************************************)
(* The validator.                                                          *)
(***************************************************************************)
\* __init__, with the file the path names.
Init ==
    /\ fileState \in {"missing", "badsyntax", "ok"}
    /\ content \in Documents
    /\ fileState # "ok" => content = PyNone
    /\ agent_data = PyDict(<<>>)
    /\ errors = <<>>
    /\ warnings = <<>>
    /\ expressions = <<>>
    /\ hints = <<>>
    /\ pc = "idle"
    /\ ret = "none"
    /\ runs = 0
    /\ reports = <<>>

Report(errs, warns, result) == [errors |-> errs, warnings |-> warns, is_valid |-> result]

\* A return of validate() with the given errors.
Return(errs, result) ==
    /\ errors' = errs
    /\ ret' = result
    /\ pc' = "idle"
    /\ reports' = Append(reports, Report(errs, warnings, result))

\* A rule of validate(): the report grows by what the rule appends, and
\* control goes to the next rule unless the rule raised.
RunRule(at, out, next) ==
    /\ pc = at
    /\ errors' = errors \o out.errs
    /\ warnings' = warnings \o out.warns
    /\ pc' = IF out.raised THEN "raised" ELSE next
    /\ UNCHANGED <<fileState, content, agent_data, expressions, hints, ret,
                   runs, reports>>

\* validate(), the file does not exist.
ValidateFileNotFound ==
    /\ pc = "idle" /\ runs < MaxRuns /\ fileState = "missing"
    /\ runs' = runs + 1
    /\ Return(Append(errors, FileNotFound), "False")
    /\ UNCHANGED <<fileState, content, agent_data, warnings, expressions, hints>>

\* validate(), yaml.safe_load raises YAMLError.
ValidateInvalidYaml ==
    /\ pc = "idle" /\ runs < MaxRuns /\ fileState = "badsyntax"
    /\ runs' = runs + 1
    /\ Return(Append(errors, InvalidYaml), "False")
    /\ UNCHANGED <<fileState, content, agent_data, warnings, expressions, hints>>

\* validate(), the file is loaded.
ValidateLoad ==
    /\ pc = "idle" /\ runs < MaxRuns /\ fileState = "ok"
    /\ runs' = runs + 1
    /\ agent_data' = content
    /\ pc' = "required"
    /\ ret' = "none"
    /\ UNCHANGED <<fileState, content, errors, warnings, expressions, hints, reports>>

ValidateRequiredFields == RunRule("required", RequiredOutcome(agent_data), "kind")

ValidateKind == RunRule("kind", KindOutcome(agent_data), "model")

ValidateModel == RunRule("model", ModelOutcome(agent_data), "tools")

ValidateTools == RunRule("tools", ToolsOutcome(agent_data), "expressions")

\* _check_powerfx_expressions
CheckPowerfxExpressions ==
    /\ pc = "expressions"
    /\ expressions' = find_expressions(agent_data, <<>>)
    /\ hints' = EnvHints(expressions', 1)
    /\ pc' = "return"
    /\ UNCHANGED <<fileState, content, agent_data, errors, warnings, ret, runs, reports>>

\* return len(self.errors) == 0
ValidateReturn ==
    /\ pc = "return"
    /\ Return(errors, IF IsValid(errors, warnings) THEN "True" ELSE "False")
    /\ UNCHANGED <<fileState, content, agent_data, warnings, expressions, hints, runs>>

Next ==
    \/ ValidateFileNotFound
    \/ ValidateInvalidYaml
    \/ ValidateLoad
    \/ ValidateRequiredFields
    \/ ValidateKind
    \/ ValidateModel
    \/ ValidateTools
    \/ CheckPowerfxExpressions
    \/ ValidateReturn

Spec == Init /\ [][Next]_vars

(***************************************************************************)
(* What a step appends to the report.                                      *)
(***************************************************************************)
AddedErrors == SubSeq(errors', Len(errors) + 1, Len(errors'))
AddedWarnings == SubSeq(warnings', Len(warnings) + 1, Len(warnings'))

Count(seq, Test(_)) == Len(SelectSeq(seq, Test))
Range(seq) == {seq[j] : j \in 1..Len(seq)}

\* The step that evaluates the rule at position `at`.
RuleStep(at) == pc = at /\ pc' # at

\* The tools of a document whose tools value is a sequence of mappings.
ToolEntries(data) ==
    IF data.t = "map" /\ HasKey(data, sTools) /\ Get(data, sTools).t = "list"
       /\ \A j \in 1..Len(Get(data, sTools).v) : Get(data, sTools).v[j].t = "map"
    THEN Get(data, sTools).v
    ELSE <<>>

(***************************************************************************)
(* C1.  Whenever validate() has returned, the value it returned is true    *)
(* if and only if self.errors is empty, whatever the warnings and the      *)
(* expressions found.                                                      *)
(***************************************************************************)
C1_ValidIffNoErrors ==
    (pc = "idle" /\ runs > 0) =>
        /\ ret \in {"True", "False"}
        /\ ret = "True" <=> Len(errors) = 0
        /\ reports[Len(reports)] = Report(errors, warnings, ret)

C1_Witness ==
    /\ pc = "idle" /\ ret = "True"
    /\ warnings # <<>> /\ expressions # <<>> /\ hints # <<>>

(***************************************************************************)
(* C2.  On malformed input (file missing, invalid syntax, or a root that   *)
(* is not a mapping) a validate() call never reaches a rule and never      *)
(* raises: it returns false with exactly one error recorded.               *)
(***************************************************************************)
Malformed == fileState \in {"missing", "badsyntax"} \/ content.t # "map"

C2_MalformedIsOneFatalError ==
    (Malformed /\ runs = 1) =>
        (pc = "idle" /\ ret = "False" /\ Len(errors) = 1)

(***************************************************************************)
(* C3.  The kind rule, on a mapping: with 'kind' present and its value     *)
(* outside {Prompt, Agent} it adds the error naming the value; with the    *)
(* value in the set, or 'kind' absent, it adds nothing.                    *)
(***************************************************************************)
C3_KindRule ==
    [][(RuleStep("kind") /\ agent_data.t = "map") =>
        LET kind == Get(agent_data, sKind) IN
        /\ pc' = "model"
        /\ (HasKey(agent_data, sKind) /\ kind \notin VALID_KINDS)
              => AddedErrors = <<InvalidKind(kind)>>
        /\ (HasKey(agent_data, sKind) /\ kind \in VALID_KINDS)
              => AddedErrors = <<>>
        /\ ~HasKey(agent_data, sKind) => AddedErrors = <<>>
        /\ AddedWarnings = <<>>]_vars

(***************************************************************************)
(* C4.  The model rule warns "No 'model' section defined" exactly when     *)
(* the 'model' key is absent; with the key present and a mapping as its    *)
(* value (the empty mapping included) there is no warning, and a model     *)
(* without 'id' gets the error "Missing required field: 'model.id'".       *)
(***************************************************************************)
C4_ModelRule ==
    [][(RuleStep("model")
        /\ (HasKey(agent_data, sModel) => Get(agent_data, sModel).t = "map")) =>
        LET model == Get(agent_data, sModel) IN
        /\ ~HasKey(agent_data, sModel)
              => (AddedWarnings = <<NoModel>> /\ AddedErrors = <<>>)
        /\ HasKey(agent_data, sModel)
              => /\ AddedWarnings = <<>>
                 /\ ~HasKey(model, sId) => MissingModelId \in Range(AddedErrors)]_vars

(***************************************************************************)
(* C5.  The model rule, on a model that has a 'connection' mapping (the    *)
(* empty one included): no 'kind' in it gives exactly one missing-kind     *)
(* error; a 'kind' outside the four connection kinds gives exactly one     *)
(* invalid-kind error naming it; the kind-specific field errors appear     *)
(* only for a kind of the set.                                             *)
(***************************************************************************)
C5_ConnectionRule ==
    [][(RuleStep("model")
        /\ Get(agent_data, sModel).t = "map"
        /\ HasKey(Get(agent_data, sModel), sConnection)
        /\ Get(Get(agent_data, sModel), sConnection).t = "map") =>
        LET connection == Get(Get(agent_data, sModel), sConnection)
            conn_kind == Get(connection, sKind)
        IN
        /\ ~HasKey(connection, sKind)
              => Count(AddedErrors, LAMBDA e : e = MissingConnKind) = 1
        /\ (HasKey(connection, sKind) /\ conn_kind \notin VALID_CONNECTION_KINDS)
              => Count(AddedErrors, LAMBDA e : e = InvalidConnKind(conn_kind)) = 1
        /\ (\E e \in Range(AddedErrors) : e.rule = "connection-fields")
              => conn_kind \in VALID_CONNECTION_KINDS]_vars

(***************************************************************************)
(* C6.  The tools rule, on a sequence of mappings: an entry without        *)
(* 'kind' gets exactly one error, "Tool #n: Missing 'kind' field" with n   *)
(* its 1-based position, and the loop goes on: every error added carries   *)
(* the position of an entry, and a later entry of unknown kind still gets  *)
(* its invalid-kind error at its own position.                             *)
(***************************************************************************)
C6_ToolWithoutKind ==
    [][(RuleStep("tools") /\ ToolEntries(agent_data) # <<>>) =>
        LET tools == ToolEntries(agent_data) IN
        /\ pc' = "expressions"
        /\ \A e \in Range(AddedErrors) : e.rule = "tools" /\ e.idx \in 1..Len(tools)
        /\ \A n \in 1..Len(tools) :
              /\ ~HasKey(tools[n], sKind)
                    => SelectSeq(AddedErrors, LAMBDA e : e.idx = n)
                          = <<ToolMissingKind(n)>>
              /\ (Truthy(Get(tools[n], sKind))
                  /\ Get(tools[n], sKind) \notin VALID_TOOL_KINDS)
                    => ToolInvalidKind(n, Get(tools[n], sKind)) \in Range(AddedErrors)]_vars

C6_Witness ==
    /\ pc = "expressions" /\ runs = 1
    /\ Len(ToolEntries(agent_data)) = 2
    /\ ~HasKey(ToolEntries(agent_data)[1], sKind)
    /\ errors = <<ToolMissingKind(1), ToolInvalidKind(2, PyStr(sBogus))>>

(***************************************************************************)
(* C7.  The tools rule, on a sequence of mappings: for an entry with       *)
(* 'kind' present, the number of errors at its position is 1 if the kind   *)
(* is outside the seven tool kinds (else 0) plus the number of absent      *)
(* required fields of the kind, each absent field having its own error.    *)
(***************************************************************************)
RequiredToolFields(kind) ==
    CASE kind = PyStr(sFunction) -> {sName, sDescription}
      [] kind = PyStr(sMcp) -> {sName, sUrl}
      [] kind = PyStr(sOpenapi) -> {sName, sSpecification}
      [] kind = PyStr(sCustom) -> {sName}
      [] OTHER -> {}

C7_ToolErrorCount ==
    [][(RuleStep("tools") /\ ToolEntries(agent_data) # <<>>) =>
        LET tools == ToolEntries(agent_data) IN
        \A n \in 1..Len(tools) :
            HasKey(tools[n], sKind) =>
                LET kind == Get(tools[n], sKind)
                    absent == {f \in RequiredToolFields(kind) : ~HasKey(tools[n], f)}
                IN
                /\ Count(AddedErrors, LAMBDA e : e.idx = n)
                      = (IF kind \notin VALID_TOOL_KINDS THEN 1 ELSE 0)
                        + Cardinality(absent)
                /\ \A f \in absent :
                      Count(AddedErrors, LAMBDA e : e = ToolRequires(n, kind.v, f)) = 1]_vars

C7_Witness ==
    /\ pc = "expressions" /\ runs = 1
    /\ Len(ToolEntries(agent_data)) = 2
    /\ Get(ToolEntries(agent_data)[2], sKind) = PyStr(sFunction)
    /\ errors = <<ToolMissingKind(1),
                  ToolRequires(2, sFunction, sName),
                  ToolRequires(2, sFunction, sDescription)>>

(***************************************************************************)
(* C8.  Each validate() call on an unchanged, readable file returns the    *)
(* same report as the call before it: the same errors, the same warnings   *)
(* and the same result.                                                    *)
(***************************************************************************)
C8_SecondRunSameReport ==
    fileState = "ok" =>
        \A k \in 1..Len(reports) : k > 1 => reports[k] = reports[k - 1]

(***************************************************************************)
(* C9.  The scan records one (path, value) entry for each string that      *)
(* starts with '=', in document order, the path being the enclosing keys   *)
(* joined by '.' with each index written '[i]'; it adds no error and no    *)
(* warning.                                                                *)
(***************************************************************************)
KeySeg(k) == [key |-> TRUE, k |-> k, i |-> 0]
IndexSeg(i) == [key |-> FALSE, k |-> <<>>, i |-> i]

\* The path of a chain of keys and indices: "a.b[2].c".
RECURSIVE PathOf(_, _)
PathOf(segs, j) ==
    IF j > Len(segs) THEN <<>>
    ELSE (IF segs[j].key
          THEN (IF j > 1 THEN <<".">> ELSE <<>>) \o segs[j].k
          ELSE <<"[">> \o DecStr(segs[j].i) \o <<"]">>)
         \o PathOf(segs, j + 1)

\* The strings starting with '=' below a node, each with the chain of keys
\* and indices that leads to it.
RECURSIVE Located(_, _)
RECURSIVE LocatedFrom(_, _, _)
Located(obj, segs) ==
    CASE obj.t \in {"map", "list"} -> LocatedFrom(obj, 1, segs)
      [] obj.t = "str" /\ Len(obj.v) > 0 /\ obj.v[1] = "=" -> << <<PathOf(segs, 1), obj.v>> >>
      [] OTHER -> <<>>

LocatedFrom(obj, j, segs) ==
    IF j > Len(obj.v) THEN <<>>
    ELSE (IF obj.t = "map"
          THEN Located(obj.v[j][2], Append(segs, KeySeg(obj.v[j][1])))
          ELSE Located(obj.v[j], Append(segs, IndexSeg(j - 1))))
         \o LocatedFrom(obj, j + 1, segs)

C9_ScanRecordsPaths ==
    [][RuleStep("expressions") =>
        /\ expressions' = Located(agent_data, <<>>)
        /\ errors' = errors
        /\ warnings' = warnings]_vars

(***************************************************************************)
(* C10.  For every expression found that starts with '=Env.', the scan     *)
(* prints the variable name: what follows that leading prefix, up to the   *)
(* first ')' or ',' if there is one and to the end of the string if not.   *)
(***************************************************************************)
\* s up to, not including, its first ')' or ','.
UpToDelimiter(s) ==
    LET stops == {j \in 1..Len(s) : s[j] \in {")", ","}} IN
    IF stops = {} THEN s
    ELSE SubSeq(s, 1, (CHOOSE a \in stops : \A b \in stops : a <= b) - 1)

VariableName(expr) == UpToDelimiter(SubSeq(expr, Len(sEnvPrefix) + 1, Len(expr)))

C10_EnvVariableName ==
    pc = "return" =>
        LET env == SelectSeq(expressions, LAMBDA x : StartsWith(x[2], sEnvPrefix)) IN
        /\ Len(hints) = Len(env)
        /\ \A j \in 1..Len(hints) :
              /\ hints[j].expr = env[j][2]
              /\ hints[j].var_name = VariableName(hints[j].expr)

====
